---- MODULE Spec2Model ----
(***************************************************************************)
(* FixMyCity backend: the JWT guard chain (is_authenticated ->             *)
(* authenticated_user -> has_roles.check_roles), the users routes          *)
(* (register_user, login_user) and the role-gated issues routes            *)
(* (get_my_issues, post_issue, update_issue_status), over the two          *)
(* MongoDB collections users_collection and issues_collection.             *)
(*                                                                         *)
(* A JWT is modelled by what jwt.encode / jwt.decode do with it: a record  *)
(* of its claims together with the key and the algorithm it was signed     *)
(* with.  An ObjectId is a natural number; str(ObjectId) and               *)
(* ObjectId(str) are the conversions OidStr / OidParse over a table of     *)
(* 24-digit hexadecimal strings.  Time is counted in days.                 *)
(*                                                                         *)
(* Left out: a request without an Authorization header (HTTPBearer         *)
(* answers it before is_authenticated runs), tokens without an exp claim,  *)
(* a JWT_SECRET_KEY set to the empty string, the username and created_at   *)
(* fields of a user, and the description, region, gps_location, flyer and  *)
(* category fields of an issue, which post_issue stores as it stores       *)
(* title and nothing later writes.  The handlers' responses carry the      *)
(* matched documents as stored; their rendering by utils.replace_mongo_id  *)
(* is not part of the model.  pc, ran and lookups record the progress of   *)
(* the request in flight; heldFor records whom the held token was issued   *)
(* to.                                                                     *)
(***************************************************************************)
EXTENDS Naturals, Sequences, FiniteSets, TLC

VARIABLES
    jwtSecret,      \* os.getenv("JWT_SECRET_KEY"), NoSecret when unset
    jwtAlgorithm,   \* os.getenv("JWT_ALGORITHM", "HS256")
    now,            \* the clock, in days
    users,          \* users_collection: a set of documents
    nextUid,        \* the next ObjectId users_collection.insert_one assigns
    reg,            \* the register_user calls in flight, one per worker thread
    held,           \* the access_token the last successful login_user returned
    heldFor,        \* the _id of the user that login was for (0: none)
    issues,         \* issues_collection: a set of documents
    nextIid,        \* the next ObjectId issues_collection.insert_one assigns
    pc,             \* where the request in flight stands in its dependency chain
    ep,             \* the endpoint of the request in flight
    tok,            \* its bearer token
    arg,            \* its path and form parameters
    allowed,        \* the roles its endpoint gave to has_roles
    payload,        \* what is_authenticated returned
    user,           \* what authenticated_user returned
    resp,           \* the response sent
    ran,            \* the dependencies and handler that ran for it, in order
    lookups         \* the users_collection.find_one calls its chain made

cfgVars == <<jwtSecret, jwtAlgorithm>>
storeVars == <<users, nextUid, issues, nextIid>>
reqVars == <<pc, ep, tok, arg, allowed, payload, user, resp, ran, lookups>>
vars == <<jwtSecret, jwtAlgorithm, now, users, nextUid, reg, held, heldFor,
          issues, nextIid, pc, ep, tok, arg, allowed, payload, user, resp,
          ran, lookups>>

----------------------------------------------------------------------------
(* Bounds of the model. *)

MaxUsers == 2
MaxIssues == 2
MaxTime == 60
TickDays == 30
NumRegThreads == 2

(* Program constants. *)

TOKEN_DAYS == 60
HTTP_400 == 400
HTTP_401 == 401
HTTP_403 == 403
HTTP_404 == 404
HTTP_409 == 409
HTTP_422 == 422
HTTP_500 == 500

----------------------------------------------------------------------------
(* Values. *)

Absent == "<absent>"
NoSecret == "<unset>"
ConfiguredSecret == "k3y-from-env"
DefaultLoginSecret == "secret123"
DefaultAlgorithm == "HS256"
LoginAlgorithm == "HS256"
Algorithms == {"HS256", "HS512"}

UserRole == {"authorities", "user"}
StoreRoles == UserRole \cup {"admin", Absent}
DefaultRole == "user"

Emails == {"ama@fix.city", "kofi@fix.city"}
Passwords == {"pw-correct"}
LoginPasswords == Passwords \cup {"pw-wrong"}
Titles == {"pothole", "streetlight"}

valid_statuses == {"pending", "in-progress", "completed", "rejected"}
StatusInputs == valid_statuses \cup {"archived"}

OidHex == <<"650000000000000000000001", "650000000000000000000002",
            "650000000000000000000003", "650000000000000000000004",
            "650000000000000000000005">>
MalformedId == "not-an-objectid"
OidStr(n) == OidHex[n]
ObjectIdIsValid(s) == \E n \in DOMAIN OidHex : OidHex[n] = s
OidParse(s) == CHOOSE n \in DOMAIN OidHex : OidHex[n] = s
UnusedOid == Len(OidHex)

NoToken == [id |-> Absent, role |-> Absent, exp |-> 0, key |-> "<none>", alg |-> "<none>"]
NoPayload == [id |-> Absent, role |-> Absent, exp |-> 0]
NoUser == [id |-> Absent, email |-> Absent, role |-> Absent, password |-> Absent]
NoArg == [title |-> Absent, issue_id |-> Absent, status_value |-> Absent]
NoResp == [status |-> 0, detail |-> "", data |-> {}]
IdleReg == [pc |-> "idle", email |-> Absent, role |-> Absent, password |-> Absent]

Response(s, d) == [status |-> s, detail |-> d, data |-> {}]
Success(d, x) == [status |-> 200, detail |-> d, data |-> x]

----------------------------------------------------------------------------
(* PyJWT. *)

JwtEncode(claims, key, alg) ==
    [id |-> claims.id, role |-> claims.role, exp |-> claims.exp,
     key |-> key, alg |-> alg]

JwtDecode(t, key, alg) ==
    IF t.alg # alg THEN [err |-> "invalid", claims |-> NoPayload]
    ELSE IF t.key # key THEN [err |-> "invalid", claims |-> NoPayload]
    ELSE IF t.exp <= now THEN [err |-> "expired", claims |-> NoPayload]
    ELSE [err |-> "", claims |-> [id |-> t.id, role |-> t.role, exp |-> t.exp]]

----------------------------------------------------------------------------
(* dependencies/authn.py *)

Failure(s, d) == [ok |-> FALSE, resp |-> Response(s, d), payload |-> NoPayload,
                  user |-> NoUser, lookups |-> 0]

is_authenticated(t) ==
    IF jwtSecret = NoSecret
    THEN Failure(HTTP_500, "JWT secret key not configured")
    ELSE LET d == JwtDecode(t, jwtSecret, jwtAlgorithm) IN
         IF d.err = "expired" THEN Failure(HTTP_401, "Token has expired")
         ELSE IF d.err = "invalid"
         THEN Failure(HTTP_401, "Invalid authentication token")
         ELSE IF d.claims.id = Absent
         THEN Failure(HTTP_401, "Invalid token: user ID missing")
         ELSE [Failure(0, "") EXCEPT !.ok = TRUE, !.resp = NoResp,
                                     !.payload = d.claims]

\* users_collection.find_one({"_id": oid}): the set of matching documents
FindUserById(oid) == {u \in users : u._id = oid}

\* the reverse precedence: the token's role claim before the stored role
EffectiveRole_TokenFirst(doc, p) ==
    IF p.role # Absent THEN p.role
    ELSE IF doc.role # Absent THEN doc.role
    ELSE DefaultRole

\* user.get("role", payload.get("role", "user"))
EffectiveRole(doc, p) ==
    IF doc.role # Absent THEN doc.role
    ELSE IF p.role # Absent THEN p.role
    ELSE DefaultRole

\* a resolver that trusts the token when the lookup finds no document
authenticated_user_TrustToken(p) ==
    IF ~ObjectIdIsValid(p.id)
    THEN Failure(HTTP_401, "Invalid user ID in token")
    ELSE LET found == FindUserById(OidParse(p.id)) IN
         IF found = {}
         THEN [ok |-> TRUE, resp |-> NoResp, payload |-> p, lookups |-> 1,
               user |-> [id |-> p.id, email |-> Absent,
                         role |-> IF p.role # Absent THEN p.role ELSE DefaultRole,
                         password |-> Absent]]
         ELSE LET doc == CHOOSE u \in found : TRUE IN
              [ok |-> TRUE, resp |-> NoResp, payload |-> p, lookups |-> 1,
               user |-> [id |-> OidStr(doc._id), email |-> doc.email,
                         role |-> EffectiveRole(doc, p),
                         password |-> doc.password]]

authenticated_user(p) ==
    IF ~ObjectIdIsValid(p.id)
    THEN Failure(HTTP_401, "Invalid user ID in token")
    ELSE LET found == FindUserById(OidParse(p.id)) IN
         IF found = {}
         THEN [Failure(HTTP_401, "Authenticated user not found in database")
                 EXCEPT !.lookups = 1]
         ELSE LET doc == CHOOSE u \in found : TRUE IN
              [ok |-> TRUE, resp |-> NoResp, payload |-> p, lookups |-> 1,
               user |-> [id |-> OidStr(doc._id), email |-> doc.email,
                         role |-> EffectiveRole(doc, p),
                         password |-> doc.password]]

(* dependencies/authnz.py *)

\* f"Access denied. Allowed roles: {', '.join(allowed_roles)}"
ForbiddenDetail(roles) ==
    CASE roles = {} -> "Access denied. Allowed roles: "
      [] roles = {"user"} -> "Access denied. Allowed roles: user"
      [] roles = {"authorities"} -> "Access denied. Allowed roles: authorities"
      [] roles = {"admin"} -> "Access denied. Allowed roles: admin"
      [] roles = {"authorities", "user"} -> "Access denied. Allowed roles: authorities, user"
      [] roles = {"admin", "user"} -> "Access denied. Allowed roles: admin, user"
      [] roles = {"admin", "authorities"} -> "Access denied. Allowed roles: admin, authorities"
      [] OTHER -> "Access denied. Allowed roles: admin, authorities, user"

\* a gate that reads an empty role list as "no restriction"
check_roles_EmptyMeansOpen(u, roles) ==
    IF roles # {} /\ u.role \notin roles
    THEN [Failure(HTTP_403, ForbiddenDetail(roles)) EXCEPT !.user = u]
    ELSE [Failure(0, "") EXCEPT !.ok = TRUE, !.resp = NoResp, !.user = u]

check_roles(u, roles) ==
    IF u.role \notin roles
    THEN [Failure(HTTP_403, ForbiddenDetail(roles)) EXCEPT !.user = u]
    ELSE [Failure(0, "") EXCEPT !.ok = TRUE, !.resp = NoResp, !.user = u]

\* check_roles declared on is_authenticated instead of authenticated_user
Requires_GateSkipsResolve(stage) ==
    CASE stage = "verify" -> "start"
      [] stage = "resolve" -> "verified"
      [] stage = "authorize" -> "verified"
      [] stage = "handler" -> "authorized"

\* the stage each dependency waits for: FastAPI solves a dependency's own
\* dependencies before it calls it
Requires(stage) ==
    CASE stage = "verify" -> "start"
      [] stage = "resolve" -> "verified"
      [] stage = "authorize" -> "resolved"
      [] stage = "handler" -> "authorized"

\* the roles each route's decorator passes to has_roles
has_roles(endpoint) ==
    CASE endpoint = "get_my_issues" -> {"user"}
      [] endpoint = "post_issue" -> {"user"}
      [] endpoint = "update_issue_status" -> {"authorities"}

Guarded == {"get_my_issues", "post_issue", "update_issue_status"}
Settled == {"idle", "rejected", "done"}

----------------------------------------------------------------------------
(* The state after construction: empty collections, no request. *)

Configurations == {NoSecret, ConfiguredSecret} \X Algorithms

InitWith(secret, alg) ==
    /\ jwtSecret = secret
    /\ jwtAlgorithm = alg
    /\ now = 0
    /\ users = {}
    /\ nextUid = 1
    /\ reg = [th \in 1..NumRegThreads |-> IdleReg]
    /\ held = NoToken
    /\ heldFor = 0
    /\ issues = {}
    /\ nextIid = 1
    /\ pc = "idle"
    /\ ep = Absent
    /\ tok = NoToken
    /\ arg = NoArg
    /\ allowed = {}
    /\ payload = NoPayload
    /\ user = NoUser
    /\ resp = NoResp
    /\ ran = <<>>
    /\ lookups = 0

Init == \E c \in Configurations : InitWith(c[1], c[2])

Tick ==
    /\ now + TickDays <= MaxTime
    /\ now' = now + TickDays
    /\ UNCHANGED <<cfgVars, storeVars, reg, held, heldFor, reqVars>>

----------------------------------------------------------------------------
(* routes/users.py *)

\* register_user up to its users_collection.count_documents check
RegisterCheck(th, email, password, role) ==
    /\ reg[th].pc = "idle"
    /\ Cardinality({u \in users : u.email = email}) = 0
    /\ reg' = [reg EXCEPT ![th] = [pc |-> "checked", email |-> email,
                                   role |-> role, password |-> password]]
    /\ UNCHANGED <<cfgVars, now, storeVars, held, heldFor, reqVars>>

\* register_user answering 409: nothing is stored
RegisterConflict(th, email) ==
    /\ reg[th].pc = "idle"
    /\ Cardinality({u \in users : u.email = email}) > 0
    /\ UNCHANGED vars

\* register_user from users_collection.insert_one to its return
RegisterInsert(th) ==
    /\ reg[th].pc = "checked"
    /\ nextUid <= MaxUsers
    /\ users' = users \cup {[_id |-> nextUid, email |-> reg[th].email,
                             role |-> reg[th].role,
                             password |-> reg[th].password]}
    /\ nextUid' = nextUid + 1
    /\ reg' = [reg EXCEPT ![th] = IdleReg]
    /\ UNCHANGED <<cfgVars, now, issues, nextIid, held, heldFor, reqVars>>

\* users_collection.find_one({"email": email}): the first document in
\* insertion order
FindUserByEmail(email) ==
    LET found == {u \in users : u.email = email} IN
    IF found = {} THEN {}
    ELSE {CHOOSE u \in found : \A v \in found : u._id <= v._id}

\* os.getenv("JWT_SECRET_KEY", "secret123")
LoginSecret == IF jwtSecret = NoSecret THEN DefaultLoginSecret ELSE jwtSecret

\* f"{user['role'].capitalize()} logged in successfully"
LoggedInMessage(role) ==
    IF role = "user" THEN "User logged in successfully"
    ELSE "Authorities logged in successfully"

\* what login_user answers, and the token it issues (NoToken: none)
login_user(email, password) ==
    LET found == FindUserByEmail(email) IN
    IF found = {}
    THEN [resp |-> Response(HTTP_401, "Invalid email or password"),
          token |-> NoToken, uid |-> 0]
    ELSE LET u == CHOOSE x \in found : TRUE IN
         IF u.role = Absent
         THEN [resp |-> Response(HTTP_500, "Internal Server Error"),
               token |-> NoToken, uid |-> 0]
         ELSE IF u.role \notin UserRole
         THEN [resp |-> Response(HTTP_403,
                  "Access denied: only 'user' or 'authorities' accounts are allowed"),
               token |-> NoToken, uid |-> 0]
         ELSE IF password # u.password
         THEN [resp |-> Response(HTTP_401, "Invalid email or password"),
               token |-> NoToken, uid |-> 0]
         ELSE [resp |-> Success(LoggedInMessage(u.role), {}),
               token |-> JwtEncode([id |-> OidStr(u._id), role |-> u.role,
                                    exp |-> now + TOKEN_DAYS],
                                   LoginSecret, LoginAlgorithm),
               uid |-> u._id]

Login(email, password) ==
    /\ pc \in Settled
    /\ LET r == login_user(email, password) IN
       /\ resp' = r.resp
       /\ held' = IF r.token # NoToken THEN r.token ELSE held
       /\ heldFor' = IF r.token # NoToken THEN r.uid ELSE heldFor
    /\ pc' = "done"
    /\ ep' = "login_user"
    /\ tok' = NoToken
    /\ arg' = NoArg
    /\ allowed' = {}
    /\ payload' = NoPayload
    /\ user' = NoUser
    /\ ran' = <<"handler">>
    /\ lookups' = 0
    /\ UNCHANGED <<cfgVars, now, storeVars, reg>>

----------------------------------------------------------------------------
(* Writes to users_collection made outside this service: a role change     *)
(* (or a document stored without a role) and the removal of an account.    *)

SetRole(oid, role) ==
    /\ \E u \in users :
          /\ u._id = oid
          /\ u.role # role
          /\ users' = (users \ {u}) \cup {[u EXCEPT !.role = role]}
    /\ UNCHANGED <<cfgVars, now, nextUid, issues, nextIid, reg, held, heldFor,
                   reqVars>>

DeleteUser(oid) ==
    /\ \E u \in users : u._id = oid /\ users' = users \ {u}
    /\ UNCHANGED <<cfgVars, now, nextUid, issues, nextIid, reg, held, heldFor,
                   reqVars>>

----------------------------------------------------------------------------
(* A request to a role-gated route: FastAPI solves has_roles(...) and its  *)
(* dependencies authenticated_user and is_authenticated (cached, so called *)
(* once per request), then calls the handler.                              *)

\* bearer tokens a client can send besides the one login_user gave it
SignedToken(id, role, exp) ==
    JwtEncode([id |-> id, role |-> role, exp |-> exp], jwtSecret, jwtAlgorithm)

OtherTokens ==
    { SignedToken(MalformedId, "user", now + TOKEN_DAYS),
      SignedToken(OidStr(UnusedOid), "user", now + TOKEN_DAYS),
      SignedToken(Absent, "user", now + TOKEN_DAYS),
      SignedToken(OidStr(1), Absent, now + TOKEN_DAYS),
      SignedToken(OidStr(1), "authorities", 0),
      JwtEncode([id |-> OidStr(1), role |-> "authorities",
                 exp |-> now + TOKEN_DAYS], "forged-key", jwtAlgorithm) }

Tokens == (IF held # NoToken THEN {held} ELSE {}) \cup OtherTokens

Args(endpoint) ==
    CASE endpoint = "get_my_issues" -> {NoArg}
      [] endpoint = "post_issue" -> {[NoArg EXCEPT !.title = t] : t \in Titles}
      [] endpoint = "update_issue_status" ->
           {[NoArg EXCEPT !.issue_id = i, !.status_value = v] :
              i \in {OidStr(1), OidStr(UnusedOid), MalformedId},
              v \in StatusInputs}

StartRequest(endpoint, t, a) ==
    /\ pc \in Settled
    /\ endpoint = "post_issue" => nextIid <= MaxIssues
    /\ pc' = "start"
    /\ ep' = endpoint
    /\ tok' = t
    /\ arg' = a
    /\ allowed' = has_roles(endpoint)
    /\ payload' = NoPayload
    /\ user' = NoUser
    /\ resp' = NoResp
    /\ ran' = <<>>
    /\ lookups' = 0
    /\ UNCHANGED <<cfgVars, now, storeVars, reg, held, heldFor>>

Reject(r) ==
    /\ pc' = "rejected"
    /\ resp' = r.resp

Verify ==
    /\ pc = Requires("verify")
    /\ ran' = Append(ran, "verify")
    /\ LET r == is_authenticated(tok) IN
       IF r.ok
       THEN /\ pc' = "verified"
            /\ payload' = r.payload
            /\ UNCHANGED resp
       ELSE /\ Reject(r)
            /\ UNCHANGED payload
    /\ UNCHANGED <<cfgVars, now, storeVars, reg, held, heldFor, ep, tok, arg,
                   allowed, user, lookups>>

Resolve ==
    /\ pc = Requires("resolve")
    /\ ran' = Append(ran, "resolve")
    /\ LET r == authenticated_user(payload) IN
       /\ lookups' = lookups + r.lookups
       /\ IF r.ok
          THEN /\ pc' = "resolved"
               /\ user' = r.user
               /\ UNCHANGED resp
          ELSE /\ Reject(r)
               /\ UNCHANGED user
    /\ UNCHANGED <<cfgVars, now, storeVars, reg, held, heldFor, ep, tok, arg,
                   allowed, payload>>

Authorize ==
    /\ pc = Requires("authorize")
    /\ ran' = Append(ran, "authorize")
    /\ LET r == check_roles(user, allowed) IN
       IF r.ok
       THEN /\ pc' = "authorized"
            /\ UNCHANGED resp
       ELSE Reject(r)
    /\ UNCHANGED <<cfgVars, now, storeVars, reg, held, heldFor, ep, tok, arg,
                   allowed, payload, user, lookups>>

----------------------------------------------------------------------------
(* routes/issues.py: the handlers, each given what is_authenticated        *)
(* returned (the decoded payload) as its user_id parameter.                *)

Finish(r) ==
    /\ pc' = "done"
    /\ resp' = r
    /\ ran' = Append(ran, "handler")
    /\ UNCHANGED <<cfgVars, now, users, nextUid, reg, held, heldFor, ep, tok,
                   arg, allowed, payload, user, lookups>>

\* issues_collection.find({"owner": user_id})
FindIssuesByOwner(user_id) == {i \in issues : i.owner = user_id}

get_my_issues ==
    /\ pc = Requires("handler")
    /\ ep = "get_my_issues"
    /\ LET user_issues == FindIssuesByOwner(payload) IN
       IF user_issues = {}
       THEN Finish(Response(HTTP_404, "You have not reported any issues yet."))
       ELSE Finish(Success("", user_issues))
    /\ UNCHANGED <<issues, nextIid>>

post_issue ==
    /\ pc = Requires("handler")
    /\ ep = "post_issue"
    /\ LET existing_issue ==
             Cardinality({i \in issues : i.title = arg.title /\ i.owner = payload})
       IN
       IF existing_issue > 0
       THEN /\ Finish(Response(HTTP_409, "Issue with title already exists for this user."))
            /\ UNCHANGED <<issues, nextIid>>
       ELSE /\ issues' = issues \cup {[_id |-> nextIid, title |-> arg.title,
                                       owner |-> payload, status |-> "pending"]}
            /\ nextIid' = nextIid + 1
            /\ Finish(Success("Issue reported successfully", {}))

\* no validation of the status value
StatusAccepted_Any(status_value) == status_value = status_value

\* the status values update_issue_status accepts
StatusAccepted(status_value) == status_value \in valid_statuses

update_issue_status ==
    /\ pc = Requires("handler")
    /\ ep = "update_issue_status"
    /\ IF ~ObjectIdIsValid(arg.issue_id)
       THEN /\ Finish(Response(HTTP_422, "Invalid issue ID"))
            /\ UNCHANGED <<issues, nextIid>>
       ELSE IF ~StatusAccepted(arg.status_value)
       THEN /\ Finish(Response(HTTP_400, "Invalid status. Allowed values: [...]"))
            /\ UNCHANGED <<issues, nextIid>>
       ELSE LET found == {i \in issues : i._id = OidParse(arg.issue_id)} IN
            IF found = {}
            THEN /\ Finish(Response(HTTP_404, "Issue not found"))
                 /\ UNCHANGED <<issues, nextIid>>
            ELSE LET issue == CHOOSE i \in found : TRUE IN
                 IF issue.status = arg.status_value
                 THEN /\ Finish(Response(HTTP_400, "No changes made to the issue"))
                      /\ UNCHANGED <<issues, nextIid>>
                 ELSE /\ issues' = (issues \ {issue}) \cup
                                   {[issue EXCEPT !.status = arg.status_value]}
                      /\ UNCHANGED nextIid
                      /\ Finish(Success("Issue updated successfully", {}))

----------------------------------------------------------------------------
(* The guard chain under every configuration: one registering client, one  *)
(* request to a role-gated route in flight at a time, logins, the clock    *)
(* and the outside writers.  issues_collection stays empty here.           *)

ChainEmails == {"ama@fix.city"}
ChainArgs(endpoint) ==
    IF endpoint = "get_my_issues" THEN {NoArg}
    ELSE {[NoArg EXCEPT !.issue_id = OidStr(1), !.status_value = "completed"]}

Next ==
    \/ Tick
    \/ \E e \in ChainEmails, p \in Passwords, r \in UserRole :
          RegisterCheck(1, e, p, r)
    \/ \E e \in ChainEmails : RegisterConflict(1, e)
    \/ RegisterInsert(1)
    \/ \E e \in ChainEmails, p \in LoginPasswords : Login(e, p)
    \/ \E u \in users, r \in StoreRoles : SetRole(u._id, r)
    \/ \E u \in users : DeleteUser(u._id)
    \/ \E e \in {"get_my_issues", "update_issue_status"} :
          \E t \in Tokens, a \in ChainArgs(e) : StartRequest(e, t, a)
    \/ Verify
    \/ Resolve
    \/ Authorize
    \/ get_my_issues
    \/ update_issue_status

Spec == Init /\ [][Next]_vars

----------------------------------------------------------------------------
(* The role gate alone: check_roles applied to every resolved identity and *)
(* every set of permitted roles, has_roles being callable with any roles.  *)

GateRoles == UserRole \cup {"admin"}

InitGate ==
    /\ jwtSecret = ConfiguredSecret
    /\ jwtAlgorithm = DefaultAlgorithm
    /\ now = 0
    /\ users = {}
    /\ nextUid = 1
    /\ reg = [th \in 1..NumRegThreads |-> IdleReg]
    /\ held = NoToken
    /\ heldFor = 0
    /\ issues = {}
    /\ nextIid = 1
    /\ pc = "resolved"
    /\ ep = "update_issue_status"
    /\ tok = NoToken
    /\ arg = NoArg
    /\ allowed \in SUBSET GateRoles
    /\ payload = NoPayload
    /\ \E n \in {1, UnusedOid}, r \in StoreRoles :
          user = [id |-> OidStr(n), email |-> "ama@fix.city", role |-> r,
                  password |-> "pw-correct"]
    /\ resp = NoResp
    /\ ran = <<"verify", "resolve">>
    /\ lookups = 1

NextGate == Authorize

SpecGate == InitGate /\ [][NextGate]_vars

----------------------------------------------------------------------------
(* Registration alone, with concurrent register_user calls: FastAPI runs   *)
(* a def route in a thread pool, so two calls interleave between the       *)
(* count_documents check and the insert_one.                               *)

NextRegister ==
    \/ \E th \in 1..NumRegThreads, e \in Emails, p \in Passwords, r \in UserRole :
          RegisterCheck(th, e, p, r)
    \/ \E th \in 1..NumRegThreads, e \in Emails : RegisterConflict(th, e)
    \/ \E th \in 1..NumRegThreads : RegisterInsert(th)
    \/ \E e \in Emails, p \in LoginPasswords : Login(e, p)

SpecRegister == InitWith(ConfiguredSecret, DefaultAlgorithm) /\ [][NextRegister]_vars

----------------------------------------------------------------------------
(* The issues routes behind the guard chain, under a working               *)
(* configuration, with the token login_user issued.                        *)

NextIssues ==
    \/ Tick
    \/ \E e \in Emails, p \in Passwords, r \in UserRole : RegisterCheck(1, e, p, r)
    \/ RegisterInsert(1)
    \/ \E e \in Emails, p \in Passwords : Login(e, p)
    \/ \E e \in Guarded : \E a \in Args(e) :
          held # NoToken /\ StartRequest(e, held, a)
    \/ Verify
    \/ Resolve
    \/ Authorize
    \/ get_my_issues
    \/ post_issue
    \/ update_issue_status

SpecIssues == InitWith(ConfiguredSecret, DefaultAlgorithm) /\ [][NextIssues]_vars

----------------------------------------------------------------------------
(* Properties of the guard chain (Spec). *)

\* the document the chain's find_one returns for payload p in this state
StoredUser(p) == CHOOSE u \in users : u._id = OidParse(p.id)

ResolveStep == pc = "verified" /\ ran' = Append(ran, "resolve")

\* C1: when authenticated_user resolves a verified token to a stored user,
\* the role it returns is the stored role if the document has one, else the
\* token's role claim if it has one, else "user"; so a stored "authorities"
\* wins over the "user" claim of a token issued before the role change.
C1_EffectiveRoleIsStoredRole ==
    [][(ResolveStep /\ pc' = "resolved") =>
          /\ ObjectIdIsValid(payload.id)
          /\ \E u \in users : u._id = OidParse(payload.id)
          /\ LET doc == StoredUser(payload) IN
             /\ doc.role # Absent => user'.role = doc.role
             /\ (doc.role = Absent /\ payload.role # Absent) =>
                    user'.role = payload.role
             /\ (doc.role = Absent /\ payload.role = Absent) =>
                    user'.role = "user"]_vars

\* a token login_user issued with role "user" passes the "authorities" gate
\* after the stored role became "authorities"
C1_StaleTokenUsesStoredRole ==
    /\ pc = "authorized"
    /\ ep = "update_issue_status"
    /\ held # NoToken
    /\ tok = held
    /\ tok.role = "user"
    /\ user.role = "authorities"

ChainOrder == <<"verify", "resolve", "authorize", "handler">>

StagesInOrder ==
    /\ Len(ran) <= Len(ChainOrder)
    /\ ep \in Guarded => ran = SubSeq(ChainOrder, 1, Len(ran))
    /\ pc = "start" => ran = <<>>
    /\ pc = "verified" => ran = <<"verify">>
    /\ pc = "resolved" => ran = <<"verify", "resolve">>
    /\ pc = "authorized" => ran = <<"verify", "resolve", "authorize">>
    /\ pc = "rejected" => Len(ran) \in 1..3
    /\ (pc = "done" /\ ep \in Guarded) => ran = ChainOrder
    /\ resp.detail = "Token has expired" =>
          pc = "rejected" /\ ran = <<"verify">> /\ lookups = 0

RejectionIsTerminal ==
    pc = "rejected" =>
       \/ UNCHANGED reqVars
       \/ pc' = "start" /\ ran' = <<>> /\ lookups' = 0
       \/ ep' = "login_user" /\ ran' = <<"handler">>

\* C2: the chain runs verify, resolve, authorize in that order, the handler
\* only after all three; a rejection at any stage ends the request (the next
\* thing to run is a new request), and an expired token is rejected at
\* verify with no users_collection lookup and no role check.
C2_ChainOrderAndTerminalFailure ==
    []StagesInOrder /\ [][RejectionIsTerminal]_vars

\* the token login_user issued has expired and is rejected at verify
C2_ExpiredLoginTokenRejectedAtVerify ==
    /\ pc = "rejected"
    /\ held # NoToken
    /\ tok = held
    /\ resp = Response(HTTP_401, "Token has expired")
    /\ ran = <<"verify">>

\* C5: when authenticated_user runs for a verified token whose subject has
\* no document in users_collection, the request is rejected there with 401
\* "Authenticated user not found in database", and no handler runs for it.
C5_RemovedUserRejectedAtResolve ==
    [][/\ (ResolveStep /\ ObjectIdIsValid(payload.id)
             /\ FindUserById(OidParse(payload.id)) = {}) =>
            /\ pc' = "rejected"
            /\ resp' = Response(HTTP_401, "Authenticated user not found in database")
            /\ ran' = <<"verify", "resolve">>
       /\ (pc = "rejected" /\ ep' = ep /\ tok' = tok /\ pc' # "start") =>
            ran' = ran]_vars

\* the token login_user issued is still valid, its user has been removed
C5_LoginTokenOfRemovedUser ==
    /\ pc = "rejected"
    /\ held # NoToken
    /\ tok = held
    /\ heldFor \notin {u._id : u \in users}
    /\ now < tok.exp
    /\ ran = <<"verify", "resolve">>
    /\ resp.detail = "Authenticated user not found in database"

\* C7 (as claimed): a request rejected by authenticated_user gets the same
\* status and message as the request that differs from it only in the
\* token's subject id and is rejected by authenticated_user too.
C7_ResolveRejectionsIndistinguishable ==
    (pc = "rejected" /\ ran = <<"verify", "resolve">>) =>
       \A id2 \in {MalformedId} \cup {OidStr(n) : n \in DOMAIN OidHex} :
          LET other == authenticated_user([payload EXCEPT !.id = id2]) IN
          ~other.ok => other.resp = resp

\* C4 (as claimed): the token login_user issued, presented unexpired to
\* is_authenticated under the same configuration, is verified and yields
\* the id of the user who logged in.
C4_LoginTokenVerifies ==
    (ran = <<"verify">> /\ held # NoToken /\ tok = held /\ now < held.exp) =>
       pc = "verified" /\ payload.id = OidStr(heldFor)

\* C8 (as claimed): with JWT_SECRET_KEY unset every answered request fails
\* with the configuration error, and no token is issued.
C8_NoSecretFailsEveryRequest ==
    jwtSecret = NoSecret =>
       /\ held = NoToken
       /\ pc \in {"rejected", "done"} =>
             resp = Response(HTTP_500, "JWT secret key not configured")

----------------------------------------------------------------------------
(* The role gate (SpecGate). *)

\* C3: check_roles lets an identity through iff its role is one of the
\* permitted roles, and otherwise answers 403; with no permitted role it
\* answers 403 for every identity, one without a role included.
C3_GateIsMembership ==
    Len(ran) >= 3 =>
       /\ user.role \in allowed => pc = "authorized"
       /\ user.role \notin allowed =>
             pc = "rejected" /\ resp = Response(HTTP_403, ForbiddenDetail(allowed))
       /\ allowed = {} => pc = "rejected"

C3_EmptySetRejectsRolelessIdentity ==
    /\ Len(ran) >= 3
    /\ allowed = {}
    /\ user.role = Absent
    /\ pc = "rejected"
    /\ resp.status = HTTP_403

----------------------------------------------------------------------------
(* Registration (SpecRegister). *)

\* C6 (as claimed): no two documents of users_collection have the same
\* email.
C6_EmailUnique ==
    \A u \in users, v \in users : u.email = v.email => u = v

----------------------------------------------------------------------------
(* The issues routes (SpecIssues). *)

\* C9 (as claimed): get_my_issues returns exactly the issues the
\* authenticated user created through post_issue, whichever of the user's
\* tokens they were created with.
C9_MyIssuesAreAllMine ==
    (pc = "done" /\ ep = "get_my_issues") =>
       resp.data = {i \in issues : i.owner.id = user.id}

StatusesValid == \A i \in issues : i.status \in valid_statuses

UpdateFrame ==
    /\ (ep = "update_issue_status" /\ issues' # issues) =>
          /\ pc = "authorized"
          /\ user.role = "authorities"
          /\ ObjectIdIsValid(arg.issue_id)
          /\ arg.status_value \in {"pending", "in-progress", "completed", "rejected"}
          /\ \E i \in issues :
                /\ i._id = OidParse(arg.issue_id)
                /\ issues' = (issues \ {i}) \cup
                             {[_id |-> i._id, title |-> i.title, owner |-> i.owner,
                               status |-> arg.status_value]}
    /\ (ep = "update_issue_status" /\ pc # "done" /\ pc' \in {"rejected", "done"}
          /\ resp'.status # 200) => issues' = issues
    /\ (ep # "update_issue_status" /\ issues' # issues) =>
          \E i \in issues' : i.status = "pending" /\ i \notin issues
                             /\ issues' = issues \cup {i}

\* C10: update_issue_status changes stored data only for a caller whose
\* effective role is "authorities", a valid id of an existing issue and one
\* of the four statuses; it then changes the status of that issue and
\* nothing else; a failing call changes nothing; issues are created
\* "pending", so every stored status is one of the four.
C10_UpdateChangesOnlyStatus ==
    []StatusesValid /\ [][UpdateFrame]_vars

C10_StatusUpdatedByAuthorities ==
    /\ pc = "done"
    /\ ep = "update_issue_status"
    /\ resp.status = 200
    /\ \E i \in issues : i.status = "completed" /\ i._id = OidParse(arg.issue_id)
    /\ Cardinality(issues) = 2

====
